---- MODULE Spec2Model ----
(***************************************************************************)
(* Model of oidcop/configure.py: the configuration resolution engine of    *)
(* the OIDC provider (path rewriting, domain/port templating, default      *)
(* merging, entity attachment).                                            *)
(*                                                                         *)
(* Python values are tagged records [t, v]:                                *)
(*   "str"  v = sequence of tokens (a token is an atom of text; "/", "{"   *)
(*          and "}" are tokens of their own, so startswith("/") and the    *)
(*          brace grammar of str.format are decided on tokens)             *)
(*   "int"  v = integer          "bool" v = BOOLEAN      "none"            *)
(*   "map"  v = function from keys to values (a dict)                      *)
(*   "list" v = sequence of values                                         *)
(*   "OPConfiguration", "Configuration"  v = function from attribute names *)
(*          to values (the __dict__ of a built configuration object)       *)
(* A dict is iterated in the order of KeyOrder (its insertion order).      *)
(***************************************************************************)
EXTENDS Integers, Sequences, FiniteSets, TLC

Str(s) == [t |-> "str", v |-> s]
Num(n) == [t |-> "int", v |-> n]
Bool(b) == [t |-> "bool", v |-> b]
None == [t |-> "none", v |-> "None"]
Map(f) == [t |-> "map", v |-> f]
List(s) == [t |-> "list", v |-> s]
EmptyMap == Map([k \in {} |-> None])

\* One-entry and merged dict literals.
Entry(k, x) == [kk \in {k} |-> x]
Merge(f, g) == [k \in (DOMAIN f) \cup (DOMAIN g) |-> IF k \in DOMAIN f THEN f[k] ELSE g[k]]

\* dict.get(key, default)
Get(conf, key, default) == IF key \in DOMAIN conf.v THEN conf.v[key] ELSE default

\* Python truthiness, as tested by `not _val`.
Falsy(x) ==
    CASE x.t = "none" -> TRUE
      [] x.t = "bool" -> ~x.v
      [] x.t = "int" -> x.v = 0
      [] x.t = "str" -> x.v = <<>>
      [] x.t = "list" -> x.v = <<>>
      [] x.t = "map" -> DOMAIN x.v = {}
      [] OTHER -> FALSE

\* str(x) of a format argument, as tokens.
IntTok(n) ==
    CASE n = 0 -> "0"
      [] n = 80 -> "80"
      [] n = 443 -> "443"
      [] n = 8080 -> "8080"
      [] OTHER -> "n"

ToStr(x) ==
    CASE x.t = "str" -> x.v
      [] x.t = "int" -> <<IntTok(x.v)>>
      [] x.t = "none" -> <<"None">>
      [] OTHER -> <<"repr">>

\* Iteration order of dict keys.
KeyOrder ==
    << "logging", "webserver", "domain", "port", "op", "server_info", "other",
       "issuer", "base_url", "template_dir", "httpc_params", "authz", "keys",
       "userinfo", "session_key", "endpoint", "token", "extra",
       "class", "function", "kwargs", "filename", "db_file", "private_path",
       "server_cert", "key_defs", "verify", "type", "version", "capabilities",
       "mutated" >>

Items(f) == SelectSeq(KeyOrder, LAMBDA k : k \in DOMAIN f)

(***************************************************************************)
(* os.path                                                                 *)
(***************************************************************************)
startswith(s, tok) == Len(s) > 0 /\ s[1] = tok

\* os.path.join(a, b) for a relative b.
path_join(a, b) ==
    IF startswith(b, "/") THEN b
    ELSE IF a = <<>> THEN b
    ELSE IF a[Len(a)] = "/" THEN a \o b
    ELSE a \o <<"/">> \o b

\* os.path.normpath on tokens: "." components, doubled and trailing "/" go.
RECURSIVE normpath(_)
normpath(p) ==
    IF Len(p) <= 1 THEN p
    ELSE IF p[Len(p)] = "/" THEN normpath(SubSeq(p, 1, Len(p) - 1))
    ELSE IF p[Len(p)] = "." /\ p[Len(p) - 1] = "/" THEN normpath(SubSeq(p, 1, Len(p) - 1))
    ELSE normpath(SubSeq(p, 1, Len(p) - 1)) \o <<p[Len(p)]>>

\* The process working directory.
Cwd == <<"/", "cwd">>

abspath(p) == normpath(path_join(Cwd, p))

(***************************************************************************)
(* str.format(domain=..., port=...)                                        *)
(***************************************************************************)
\* Index of the first "}" at or after i, 0 if none.
RECURSIVE CloseAt(_, _)
CloseAt(s, i) ==
    IF i > Len(s) THEN 0
    ELSE IF s[i] = "}" THEN i
    ELSE CloseAt(s, i + 1)

\* The result is [ok, s]: ok = FALSE is a raised KeyError/ValueError/IndexError.
RECURSIVE FormatFrom(_, _, _, _)
FormatFrom(s, i, domain, port) ==
    LET emit(out, r) == [ok |-> r.ok, s |-> out \o r.s]
        raise == [ok |-> FALSE, s |-> <<>>]
        field(j) ==
            IF j = 0 THEN raise
            ELSE IF SubSeq(s, i + 1, j - 1) = <<"domain">>
            THEN emit(domain, FormatFrom(s, j + 1, domain, port))
            ELSE IF SubSeq(s, i + 1, j - 1) = <<"port">>
            THEN emit(port, FormatFrom(s, j + 1, domain, port))
            ELSE raise
    IN IF i > Len(s) THEN [ok |-> TRUE, s |-> <<>>]
       ELSE IF s[i] = "{" /\ i < Len(s) /\ s[i + 1] = "{"
       THEN emit(<<"{">>, FormatFrom(s, i + 2, domain, port))
       ELSE IF s[i] = "{" THEN field(CloseAt(s, i + 1))
       ELSE IF s[i] = "}" /\ i < Len(s) /\ s[i + 1] = "}"
       THEN emit(<<"}">>, FormatFrom(s, i + 2, domain, port))
       ELSE IF s[i] = "}" THEN raise
       ELSE emit(<<s[i]>>, FormatFrom(s, i + 1, domain, port))

\* format with ":" and the port appended to the formatted string.
format_append_port(val, domain, port) ==
    LET result(r) == [ok |-> r.ok,
                      val |-> IF r.ok THEN Str(r.s \o <<":">> \o ToStr(port)) ELSE val]
    IN IF val.t # "str" THEN [ok |-> FALSE, val |-> val]
       ELSE result(FormatFrom(val.v, 1, ToStr(domain), ToStr(port)))

\* val.format(domain=domain, port=port); only a str has the method.
format(val, domain, port) ==
    LET result(r) == [ok |-> r.ok, val |-> IF r.ok THEN Str(r.s) ELSE val]
    IN IF val.t # "str" THEN [ok |-> FALSE, val |-> val]
       ELSE result(FormatFrom(val.v, 1, ToStr(domain), ToStr(port)))

\* [v.format(...) for v in val]: stops at the first element that raises.
RECURSIVE format_list(_, _, _)
format_list(vals, domain, port) ==
    LET rest(h) ==
            LET cons(r) == [ok |-> r.ok, vals |-> <<h.val>> \o r.vals]
            IN IF ~h.ok THEN [ok |-> FALSE, vals |-> vals]
               ELSE cons(format_list(Tail(vals), domain, port))
    IN IF vals = <<>> THEN [ok |-> TRUE, vals |-> <<>>]
       ELSE rest(format(Head(vals), domain, port))

(***************************************************************************)
(* add_base_path, set_domain_and_port                                      *)
(***************************************************************************)
DEFAULT_FILE_ATTRIBUTE_NAMES ==
    { "server_key", "server_cert", "filename", "template_dir",
      "private_path", "public_path", "db_file" }

URIS == { "issuer", "base_url" }

\* conf[key] = val
SetItem(conf, key, val) == Map([conf.v EXCEPT ![key] = val])

\* Both mutate conf in place and return it; the result is [ok, conf], where
\* ok = FALSE is a raised exception and conf is the dict as the loop left it.
RECURSIVE add_base_path(_, _, _)
RECURSIVE add_base_path_loop(_, _, _, _)
\* add_base_path's loop without the test of the key: every string is rewritten.
RECURSIVE add_base_path_loop_any_key(_, _, _, _)
add_base_path_loop_any_key(conf, keys, base_path, file_attributes) ==
    LET key == Head(keys)
        val == conf.v[key]
        continue(conf2) == add_base_path_loop_any_key(conf2, Tail(keys), base_path,
                                                      file_attributes)
        recursed(r) ==
            IF r.ok THEN continue(SetItem(conf, key, r.conf))
            ELSE [ok |-> FALSE, conf |-> SetItem(conf, key, r.conf)]
    IN IF keys = <<>> THEN [ok |-> TRUE, conf |-> conf]
       ELSE IF val.t = "str" /\ startswith(val.v, "/")
       THEN continue(conf)
       ELSE IF val.t = "str" /\ val.v = <<>>
       THEN continue(SetItem(conf, key, Str(<<".", "/">> \o val.v)))
       ELSE IF val.t = "str"
       THEN continue(SetItem(conf, key, Str(path_join(base_path, val.v))))
       ELSE IF val.t = "map"
       THEN recursed(add_base_path(val, base_path, file_attributes))
       ELSE continue(conf)

add_base_path_loop(conf, keys, base_path, file_attributes) ==
    LET key == Head(keys)
        val == conf.v[key]
        continue(conf2) == add_base_path_loop(conf2, Tail(keys), base_path, file_attributes)
        recursed(r) ==
            IF r.ok THEN continue(SetItem(conf, key, r.conf))
            ELSE [ok |-> FALSE, conf |-> SetItem(conf, key, r.conf)]
    IN IF keys = <<>> THEN [ok |-> TRUE, conf |-> conf]
       ELSE IF key \in file_attributes /\ val.t # "str"
       THEN [ok |-> FALSE, conf |-> conf]
       ELSE IF key \in file_attributes /\ startswith(val.v, "/")
       THEN continue(conf)
       ELSE IF key \in file_attributes /\ val.v = <<>>
       THEN continue(SetItem(conf, key, Str(<<".", "/">> \o val.v)))
       ELSE IF key \in file_attributes
       THEN continue(SetItem(conf, key, Str(path_join(base_path, val.v))))
       ELSE IF val.t = "map"
       THEN recursed(add_base_path(val, base_path, file_attributes))
       ELSE continue(conf)

add_base_path(conf, base_path, file_attributes) ==
    add_base_path_loop(conf, Items(conf.v), base_path, file_attributes)

RECURSIVE set_domain_and_port(_, _, _, _)
RECURSIVE set_domain_and_port_loop(_, _, _, _, _)
\* set_domain_and_port's loop without the recursion into nested mappings.
RECURSIVE set_domain_and_port_loop_flat(_, _, _, _, _)
set_domain_and_port_loop_flat(conf, keys, uris, domain, port) ==
    LET key == Head(keys)
        val == conf.v[key]
        continue(conf2) == set_domain_and_port_loop_flat(conf2, Tail(keys), uris, domain, port)
        formatted_list(r) ==
            IF r.ok THEN continue(SetItem(conf, key, List(r.vals)))
            ELSE [ok |-> FALSE, conf |-> conf]
        formatted(r) ==
            IF r.ok THEN continue(SetItem(conf, key, r.val))
            ELSE [ok |-> FALSE, conf |-> conf]
    IN IF keys = <<>> THEN [ok |-> TRUE, conf |-> conf]
       ELSE IF key \in uris /\ val.t = "list"
       THEN formatted_list(format_list(val.v, domain, port))
       ELSE IF key \in uris
       THEN formatted(format(val, domain, port))
       ELSE continue(conf)

set_domain_and_port_loop(conf, keys, uris, domain, port) ==
    LET key == Head(keys)
        val == conf.v[key]
        continue(conf2) == set_domain_and_port_loop(conf2, Tail(keys), uris, domain, port)
        formatted_list(r) ==
            IF r.ok THEN continue(SetItem(conf, key, List(r.vals)))
            ELSE [ok |-> FALSE, conf |-> conf]
        formatted(r) ==
            IF r.ok THEN continue(SetItem(conf, key, r.val))
            ELSE [ok |-> FALSE, conf |-> conf]
        recursed(r) ==
            IF r.ok THEN continue(SetItem(conf, key, r.conf))
            ELSE [ok |-> FALSE, conf |-> SetItem(conf, key, r.conf)]
    IN IF keys = <<>> THEN [ok |-> TRUE, conf |-> conf]
       ELSE IF key \in uris /\ val.t = "list"
       THEN formatted_list(format_list(val.v, domain, port))
       ELSE IF key \in uris
       THEN formatted(format(val, domain, port))
       ELSE IF val.t = "map"
       THEN recursed(set_domain_and_port(val, uris, domain, port))
       ELSE continue(conf)

set_domain_and_port(conf, uris, domain, port) ==
    set_domain_and_port_loop(conf, Items(conf.v), uris, domain, port)

(***************************************************************************)
(* DEFAULT_CONFIG                                                          *)
(***************************************************************************)
T(tok) == Str(<<tok>>)

DEFAULT_CONFIG ==
    [ cookie_handler |-> Map(
        [ class |-> T("oidcop.cookie_handler.CookieHandler"),
          kwargs |-> Map(
            [ keys |-> Map(
                [ private_path |-> Str(<<"private", "/", "cookie_jwks.json">>),
                  key_defs |-> List(<<
                      Map([type |-> T("OCT"), use |-> List(<<T("enc")>>), kid |-> T("enc")]),
                      Map([type |-> T("OCT"), use |-> List(<<T("sig")>>), kid |-> T("sig")]) >>),
                  read_only |-> Bool(FALSE) ]),
              name |-> Map(
                [ session |-> T("oidc_op"),
                  register |-> T("oidc_op_rp"),
                  session_management |-> T("sman") ]) ]) ]),
      authz |-> Map(
        [ class |-> T("oidcop.authz.AuthzHandling"),
          kwargs |-> Map(
            [ grant_config |-> Map(
                [ usage_rules |-> Map(
                    [ authorization_code |-> Map(
                        [ supports_minting |-> List(<<T("access_token"), T("refresh_token"), T("id_token")>>),
                          max_usage |-> Num(1) ]),
                      access_token |-> EmptyMap,
                      refresh_token |-> Map(
                        [ supports_minting |-> List(<<T("access_token"), T("refresh_token")>>) ]) ]),
                  expires_in |-> Num(43200) ]) ]) ]),
      httpc_params |-> Map([verify |-> Bool(FALSE)]),
      issuer |-> Str(<<"https://", "{", "domain", "}", ":", "{", "port", "}">>),
      session_key |-> Map(
        [ filename |-> Str(<<"private", "/", "session_jwk.json">>),
          type |-> T("OCT"),
          use |-> T("sig") ]),
      template_dir |-> T("templates"),
      token_handler_args |-> Map(
        [ jwks_file |-> Str(<<"private", "/", "token_jwks.json">>),
          code |-> Map([kwargs |-> Map([lifetime |-> Num(600)])]),
          token |-> Map(
            [ class |-> T("oidcop.token.jwt_token.JWTToken"),
              kwargs |-> Map([lifetime |-> Num(3600)]) ]),
          refresh |-> Map(
            [ class |-> T("oidcop.token.jwt_token.JWTToken"),
              kwargs |-> Map([lifetime |-> Num(86400)]) ]),
          id_token |-> Map(
            [ class |-> T("oidcop.token.id_token.IDToken"),
              kwargs |-> EmptyMap ]) ]) ]

(***************************************************************************)
(* Base, OPConfiguration, Configuration                                    *)
(***************************************************************************)
\* An optional argument: file_attributes = None, or a list of names.
NoFileAttributes == [given |-> FALSE, names |-> {}]
FileAttributes(names) == [given |-> TRUE, names |-> names]

\* conf itself instead of a copy of it.
deepcopy_alias(conf) == [new |-> FALSE, val |-> conf]

\* copy.deepcopy(conf): a new object (new = TRUE) with the same content.
deepcopy(conf) == [new |-> TRUE, val |-> conf]

\* Base.__init__: [ok, conf], conf rewritten in place.
Base_init(conf, base_path, file_attributes) ==
    LET names == IF ~file_attributes.given THEN DEFAULT_FILE_ATTRIBUTE_NAMES
                 ELSE file_attributes.names
    IN IF base_path # <<>> /\ names # {}
       THEN IF conf.t # "map" THEN [ok |-> FALSE, conf |-> conf]
            ELSE add_base_path(conf, base_path, names)
       ELSE [ok |-> TRUE, conf |-> conf]

\* The attributes OPConfiguration.__init__ pre-initializes, in order.
OPAttributes ==
    << "add_on", "authz", "authentication", "base_url", "capabilities",
       "cookie_handler", "endpoint", "httpc_params", "id_token", "issuer",
       "keys", "login_hint2acrs", "login_hint_lookup", "session_key",
       "sub_func", "template_dir", "token_handler_args", "userinfo" >>

Schema == { OPAttributes[i] : i \in DOMAIN OPAttributes }

Placeholder(key) ==
    CASE key \in {"base_url", "issuer"} -> Str(<<>>)
      [] key \in {"endpoint", "httpc_params", "login_hint2acrs", "sub_func",
                  "token_handler_args"} -> EmptyMap
      [] OTHER -> None

Placeholders == [key \in Schema |-> Placeholder(key)]

\* `not domain` / `not port`: the fallback to the tree's own value.
resolve_domain(conf, domain) ==
    IF Falsy(domain) THEN Get(conf, "domain", T("127.0.0.1")) ELSE domain

resolve_port(conf, port) ==
    IF Falsy(port) THEN Get(conf, "port", Num(80)) ELSE port

\* The merge with the default table consulted first.
merged_value_default_first(conf, key, current) ==
    LET _val == Get(conf, key, None)
    IN IF key \in DOMAIN DEFAULT_CONFIG THEN DEFAULT_CONFIG[key]
       ELSE IF Falsy(_val) THEN current
       ELSE _val

\* The merge without the default table.
merged_value_no_default(conf, key, current) ==
    LET _val == Get(conf, key, None)
    IN IF Falsy(_val) THEN current ELSE _val

\* One pass of `for key in self.__dict__.keys()`: the value set, or kept.
merged_value(conf, key, current) ==
    LET _val == Get(conf, key, None)
    IN IF Falsy(_val)
       THEN IF key \in DOMAIN DEFAULT_CONFIG THEN DEFAULT_CONFIG[key] ELSE current
       ELSE _val

RECURSIVE merge_defaults(_, _, _)
merge_defaults(self, conf, keys) ==
    IF keys = <<>> THEN self
    ELSE merge_defaults([self EXCEPT ![Head(keys)] = merged_value(conf, Head(keys), @)],
                        conf, Tail(keys))

\* The template_dir special case; a value that is no str makes abspath raise.
resolve_template_dir(self) ==
    IF self["template_dir"].t = "none"
    THEN [ok |-> TRUE, self |-> [self EXCEPT !["template_dir"] = Str(abspath(<<"templates">>))]]
    ELSE IF self["template_dir"].t = "str"
    THEN [ok |-> TRUE, self |-> [self EXCEPT !["template_dir"] = Str(abspath(@.v))]]
    ELSE [ok |-> FALSE, self |-> self]

NoAttributes == [k \in {} |-> None]

\* OPConfiguration.__init__. The result is
\*   ok      FALSE when an exception was raised
\*   self    the object's __dict__ as the constructor left it
\*   conf    the dict the constructor worked on, as it left it
\*   copied  whether that dict is a private copy (TRUE) or the caller's own
OPConfiguration_init(conf0, base_path, domain0, port0, file_attributes) ==
    LET result(new, s, t) == [ok |-> t.ok, self |-> t.self, conf |-> s.conf, copied |-> new]
        substituted(new, s) ==
            IF ~s.ok
            THEN [ok |-> FALSE, self |-> Placeholders, conf |-> s.conf, copied |-> new]
            ELSE result(new, s,
                        resolve_template_dir(merge_defaults(Placeholders, s.conf, OPAttributes)))
        based(new, b) ==
            IF ~b.ok \/ b.conf.t # "map"
            THEN [ok |-> FALSE, self |-> NoAttributes, conf |-> b.conf, copied |-> new]
            ELSE substituted(new, set_domain_and_port(b.conf, URIS,
                                                      resolve_domain(b.conf, domain0),
                                                      resolve_port(b.conf, port0)))
        copied(c) == based(c.new, Base_init(c.val, base_path, file_attributes))
    IN copied(deepcopy(conf0))

\* The logger handle: configure_logging(...).getChild(__name__), or the
\* process-wide logging.getLogger("oidcop").
logger_for(conf) ==
    IF Falsy(Get(conf, "logging", None)) THEN T("logging.getLogger(oidcop)")
    ELSE T("configure_logging(config).getChild")

\* conf[path[1]][path[2]]...: [ok, val]; ok = FALSE is a KeyError/TypeError.
RECURSIVE navigate(_, _)
navigate(cnf, path) ==
    IF path = <<>> THEN [ok |-> TRUE, val |-> cnf]
    ELSE IF cnf.t # "map" \/ Head(path) \notin DOMAIN cnf.v THEN [ok |-> FALSE, val |-> cnf]
    ELSE navigate(cnf.v[Head(path)], Tail(path))

\* conf with the sub-tree at path replaced (path exists in conf).
RECURSIVE replace_at(_, _, _)
replace_at(cnf, path, val) ==
    IF path = <<>> THEN val
    ELSE Map([cnf.v EXCEPT ![Head(path)] = replace_at(@, Tail(path), val)])

\* An attribute that holds a dict of the caller's tree holds that very dict,
\* which later in-place rewriting changes: Ref(path) is the dict at path of
\* the caller's tree. Any other value is held as it was when assigned.
Ref(path) == [t |-> "ref", v |-> path]

\* Configuration.__init__ up to the entity loop; `here` is where conf0 lies
\* in the caller's tree (<<>> for the tree itself).
Configuration_plain(conf0, here, base_path, domain0, port0, file_attributes) ==
    LET webserver(conf) ==
            IF "webserver" \in DOMAIN conf.v /\ conf.v["webserver"].t = "map"
            THEN Ref(here \o <<"webserver">>)
            ELSE Get(conf, "webserver", EmptyMap)
        substituted(self, domain, port, s) ==
            [ok |-> s.ok, self |-> self, conf |-> s.conf, copied |-> FALSE,
             domain |-> domain, port |-> port]
        resolved(conf, domain, port) ==
            substituted([logger |-> logger_for(conf), webserver |-> webserver(conf)],
                        domain, port, set_domain_and_port(conf, URIS, domain, port))
        based(b) ==
            IF ~b.ok \/ b.conf.t # "map"
            THEN [ok |-> FALSE, self |-> NoAttributes, conf |-> b.conf, copied |-> FALSE,
                  domain |-> domain0, port |-> port0]
            ELSE resolved(b.conf, resolve_domain(b.conf, domain0), resolve_port(b.conf, port0))
    IN based(Base_init(conf0, base_path, file_attributes))

\* _cls(_cnf, base_path=..., file_attributes=..., domain=..., port=...)
construct(_cls, _cnf, here, base_path, domain, port, file_attributes) ==
    LET built(r) == [ok |-> r.ok, obj |-> [t |-> _cls, v |-> r.self],
                     conf |-> r.conf, copied |-> r.copied]
    IN IF _cls = "OPConfiguration"
       THEN built(OPConfiguration_init(_cnf, base_path, domain, port, file_attributes))
       ELSE built(Configuration_plain(_cnf, here, base_path, domain, port, file_attributes))

\* The entity loop going on to the next descriptor after one has failed.
RECURSIVE attach_entities_continue(_, _, _, _, _, _, _)
attach_entities_continue(st, entity_conf, i, base_path, domain, port, file_attributes) ==
    LET econf == entity_conf[i]
        _path == IF "path" \in DOMAIN econf THEN econf["path"] ELSE <<>>
        next(st2) == attach_entities_continue(st2, entity_conf, i + 1, base_path, domain, port,
                                              file_attributes)
        failed(what, conf) ==
            next(IF st.ok
                 THEN [st EXCEPT !.ok = FALSE, !.at = i, !.what = what, !.conf = conf]
                 ELSE [st EXCEPT !.conf = conf])
        constructed(r, conf) ==
            IF ~r.ok THEN failed("construct", conf)
            ELSE next([st EXCEPT !.self = Merge(Entry(econf["attr"], r.obj), @),
                                 !.conf = conf,
                                 !.log = Append(@, i)])
        written_back(r) ==
            constructed(r, IF r.copied THEN st.conf ELSE replace_at(st.conf, _path, r.conf))
        navigated(n) ==
            IF ~n.ok THEN failed("path", st.conf)
            ELSE IF "attr" \notin DOMAIN econf THEN failed("attr", st.conf)
            ELSE IF "class" \notin DOMAIN econf THEN failed("class", st.conf)
            ELSE written_back(construct(econf["class"], n.val, _path, base_path, domain, port,
                                        file_attributes))
    IN IF i > Len(entity_conf) THEN st
       ELSE navigated(navigate(st.conf, _path))

\* The loop over entity_conf, from descriptor i on. st is
\*   self, conf   the parent object and the (caller's) tree so far
\*   ok           FALSE once an exception was raised
\*   at, what     the descriptor that raised and where: "path", "attr",
\*                "class" or "construct" (0 and "" while none has)
\*   log          the descriptors whose attribute was set, in order
RECURSIVE attach_entities(_, _, _, _, _, _, _)
attach_entities(st, entity_conf, i, base_path, domain, port, file_attributes) ==
    LET econf == entity_conf[i]
        _path == IF "path" \in DOMAIN econf THEN econf["path"] ELSE <<>>
        failed(what, conf) == [st EXCEPT !.ok = FALSE, !.at = i, !.what = what, !.conf = conf]
        \* a constructor that did not copy has rewritten the caller's sub-tree
        constructed(r, conf) ==
            IF ~r.ok THEN failed("construct", conf)
            ELSE attach_entities([st EXCEPT !.self = Merge(Entry(econf["attr"], r.obj), @),
                                            !.conf = conf,
                                            !.log = Append(@, i)],
                                 entity_conf, i + 1, base_path, domain, port, file_attributes)
        written_back(r) ==
            constructed(r, IF r.copied THEN st.conf ELSE replace_at(st.conf, _path, r.conf))
        navigated(n) ==
            IF ~n.ok THEN failed("path", st.conf)
            ELSE IF "attr" \notin DOMAIN econf THEN failed("attr", st.conf)
            ELSE IF "class" \notin DOMAIN econf THEN failed("class", st.conf)
            ELSE written_back(construct(econf["class"], n.val, _path, base_path, domain, port,
                                        file_attributes))
    IN IF i > Len(entity_conf) THEN st
       ELSE navigated(navigate(st.conf, _path))

\* Configuration.__init__.
Configuration_init(conf0, entity_conf, base_path, domain0, port0, file_attributes) ==
    LET entities(p) ==
            attach_entities([self |-> p.self, conf |-> p.conf, ok |-> p.ok, at |-> 0,
                             what |-> "", log |-> <<>>],
                            IF p.ok THEN entity_conf ELSE <<>>,
                            1, base_path, p.domain, p.port, file_attributes)
    IN entities(Configuration_plain(conf0, <<>>, base_path, domain0, port0, file_attributes))

(***************************************************************************)
(* Inputs                                                                  *)
(***************************************************************************)
MaxTopKeys == 2
MaxEntities == 2
MaxCalls == 2
MaxMutations == 1

Template == Str(<<"https://", "{", "domain", "}", ":", "{", "port", "}">>)

\* Top-level (key, value) entries of provider-level trees.
OPEntries ==
    { <<"issuer", Template>>,
      <<"issuer", Str(<<>>)>>,
      <<"issuer", Str(<<"{", "{", "domain", "}", "}">>)>>,
      <<"issuer", Str(<<"https://", "{", "host", "}">>)>>,
      <<"base_url", List(<<Str(<<"https://", "{", "domain", "}">>),
                          Str(<<"http://", "{", "domain", "}", ":", "{", "port", "}">>)>>)>>,
      <<"template_dir", T("tpl")>>,
      <<"template_dir", Str(<<"/", "srv", "/", "tpl">>)>>,
      <<"httpc_params", EmptyMap>>,
      <<"httpc_params", Map([verify |-> Bool(TRUE)])>>,
      <<"authz", Map([class |-> T("oidcop.authz.AuthzHandling"), kwargs |-> EmptyMap])>>,
      <<"userinfo", Map([class |-> T("oidcop.user_info.UserInfo"),
                         kwargs |-> Map([db_file |-> T("users.json")])])>>,
      <<"keys", Map([private_path |-> T("jwks.json"),
                     key_defs |-> List(<<Map([type |-> T("RSA"), filename |-> T("k.pem")])>>)])>>,
      <<"session_key", Map([filename |-> Map([type |-> T("OCT")])])>>,
      <<"endpoint", Map([token |-> Map(
            [class |-> T("oidcop.oidc.token.Token"),
             kwargs |-> Map([base_url |-> Str(<<"https://", "{", "domain", "}">>)])])])>>,
      <<"domain", T("example.org")>>,
      <<"port", Num(8080)>>,
      <<"other", Map([function |-> T("add_pkce_support"), kwargs |-> EmptyMap])>>,
      <<"capabilities", List(<<Map([class |-> T("oidcop.util.JSONDictDB"),
                                    kwargs |-> Map([filename |-> T("passwd.json")])])>>)>>,
      <<"db_file", Str(<<>>)>> }

\* Entries for direct calls of add_base_path and set_domain_and_port.
FnEntries ==
    OPEntries \cup
    { <<"filename", T("jwks.json")>>,
      <<"server_cert", Str(<<"/", "etc", "/", "cert.pem">>)>>,
      <<"filename", None>>,
      <<"issuer", Map([extra |-> Template])>>,
      <<"base_url", List(<<T("https://op"), Num(443)>>)>>,
      <<"extra", Map([issuer |-> Str(<<"a", "}", "}", "b">>)])>> }

\* Sub-trees found at op/server_info of a server-level tree.
EntityTrees ==
    { Map([issuer |-> Template, keys |-> Map([private_path |-> T("jwks.json")])]),
      Map([issuer |-> Str(<<"{", "{", "host", "}", "}">>)]),
      Map([webserver |-> Map([server_cert |-> Str(<<"certs", "/", "cert.pem">>)]),
           userinfo |-> Map([class |-> T("oidcop.user_info.UserInfo"),
                             kwargs |-> Map([db_file |-> Str(<<"/", "var", "/", "users.json">>)])])]),
      Map([session_key |-> Map([filename |-> Str(<<>>)])]) }

ServerEntries ==
    { <<"op", Map([server_info |-> t])>> : t \in EntityTrees } \cup
    { <<"op", EmptyMap>>,
      <<"webserver", Map([server_cert |-> Str(<<"certs", "/", "cert.pem">>), port |-> Num(8080)])>>,
      <<"webserver", T("gunicorn")>>,
      <<"logging", Map([version |-> Num(1)])>>,
      <<"domain", T("example.org")>>,
      <<"filename", None>> }

\* The trees with at most n of the entries.
RECURSIVE Trees(_, _)
Trees(entries, n) ==
    IF n = 0 THEN {EmptyMap}
    ELSE LET smaller == Trees(entries, n - 1)
         IN smaller \cup
            { Map(Merge(Entry(e[1], e[2]), t.v)) :
                <<t, e>> \in { x \in smaller \X entries : x[2][1] \notin DOMAIN x[1].v } }

BasePaths == { <<>>, <<"/", "etc", "/", "idp">>, <<"conf">> }
FileAttributeArgs == { NoFileAttributes, FileAttributes({"filename", "issuer"}) }
DomainArgs == { Str(<<>>), T("example.com") }
PortArgs == { Num(0), Num(443) }

\* Entity descriptors: dicts with "path", "attr" and "class", any of them absent.
Descriptors ==
    { [path |-> <<"op", "server_info">>, attr |-> "op", class |-> "OPConfiguration"],
      [path |-> <<"op", "server_info">>, attr |-> "sub", class |-> "Configuration"],
      [attr |-> "whole", class |-> "Configuration"],
      [path |-> <<"op", "server_info">>, class |-> "OPConfiguration"],
      [path |-> <<"op", "server_info">>, attr |-> "op"],
      [path |-> <<"op", "absent">>] }

RECURSIVE EntityConfs(_)
EntityConfs(n) ==
    IF n = 0 THEN {<<>>}
    ELSE LET shorter == EntityConfs(n - 1)
         IN shorter \cup { Append(ec, d) : <<ec, d>> \in shorter \X Descriptors }

(***************************************************************************)
(* State                                                                   *)
(***************************************************************************)
VARIABLES
    raw,              \* the caller's tree (the dict object the caller holds)
    given,            \* its content when the caller handed it over
    own,              \* the constructor's private deep copy, None while there is none
    self,             \* the object under construction / built
    pc,               \* "start", or the operation that ran
    ok,               \* FALSE when the operation raised
    base_path, file_attributes, domain, port, entity_conf,   \* the arguments
    at, what, log,    \* entity loop: failing descriptor, failing step, attached
    calls, prev,      \* set_domain_and_port: applications so far, tree before the last
    nmut              \* in-place changes made through attributes

vars == <<raw, given, own, self, pc, ok, base_path, file_attributes, domain, port,
          entity_conf, at, what, log, calls, prev, nmut>>

args == <<base_path, file_attributes, domain, port>>

InitWith(trees, domains, ports) ==
    /\ raw \in trees
    /\ given = raw
    /\ own = None
    /\ self = [t |-> "none", v |-> NoAttributes]
    /\ pc = "start"
    /\ ok = TRUE
    /\ base_path \in BasePaths
    /\ file_attributes \in FileAttributeArgs
    /\ domain \in domains
    /\ port \in ports
    /\ entity_conf = <<>>
    /\ at = 0
    /\ what = ""
    /\ log = <<>>
    /\ calls = 0
    /\ prev = None
    /\ nmut = 0

InitFn == InitWith(Trees(FnEntries, MaxTopKeys), {T("example.com")}, {Num(443)})
InitOP == InitWith(Trees(OPEntries, MaxTopKeys), DomainArgs, PortArgs)
InitServer == InitWith(Trees(ServerEntries, MaxTopKeys), DomainArgs, {Num(0)})

Names(fa) == IF fa.given THEN fa.names ELSE DEFAULT_FILE_ATTRIBUTE_NAMES

\* add_base_path(raw, base_path, file_attributes), called on the caller's tree.
call_add_base_path ==
    /\ pc = "start"
    /\ \E r \in {add_base_path(raw, base_path, Names(file_attributes))} :
          /\ raw' = r.conf
          /\ ok' = r.ok
    /\ pc' = "add_base_path"
    /\ UNCHANGED <<given, own, self, args, entity_conf, at, what, log, calls, prev, nmut>>

\* set_domain_and_port(raw, URIS, domain, port), called on the caller's tree,
\* and called again on its own result.
call_set_domain_and_port ==
    /\ \/ pc = "start"
       \/ pc = "set_domain_and_port" /\ ok /\ calls < MaxCalls
    /\ \E r \in {set_domain_and_port(raw, URIS, domain, port)} :
          /\ raw' = r.conf
          /\ ok' = r.ok
    /\ prev' = raw
    /\ calls' = calls + 1
    /\ pc' = "set_domain_and_port"
    /\ UNCHANGED <<given, own, self, args, entity_conf, at, what, log, nmut>>

\* OPConfiguration(raw, base_path, domain=..., port=..., file_attributes=...)
new_OPConfiguration ==
    /\ pc = "start"
    /\ \E r \in {OPConfiguration_init(raw, base_path, domain, port, file_attributes)} :
          /\ raw' = IF r.copied THEN raw ELSE r.conf
          /\ own' = IF r.copied THEN r.conf ELSE None
          /\ self' = [t |-> "OPConfiguration", v |-> r.self]
          /\ ok' = r.ok
    /\ pc' = "OPConfiguration"
    /\ UNCHANGED <<given, args, entity_conf, at, what, log, calls, prev, nmut>>

\* The dict the built object's attribute values belong to.
Backing == IF own = None THEN raw ELSE own

\* x changed in place: a dict gets a key, a list an element.
changed(x) ==
    IF x.t = "map" THEN Map(Merge(Entry("mutated", Bool(TRUE)), x.v))
    ELSE List(Append(x.v, T("mutated")))

\* A caller changes, in place, a dict or list it reached through an attribute
\* of the built object; the attribute holds the tree's own value.
mutate_attribute ==
    /\ pc \in {"OPConfiguration", "mutated"}
    /\ ok
    /\ nmut < MaxMutations
    /\ \E key \in DOMAIN self.v :
          /\ key \in DOMAIN Backing.v
          /\ self.v[key] = Backing.v[key]
          /\ self.v[key].t \in {"map", "list"}
          /\ self' = [self EXCEPT !.v[key] = changed(@)]
          /\ IF own = None
             THEN raw' = Map([raw.v EXCEPT ![key] = changed(@)]) /\ own' = own
             ELSE own' = Map([own.v EXCEPT ![key] = changed(@)]) /\ raw' = raw
    /\ nmut' = nmut + 1
    /\ pc' = "mutated"
    /\ UNCHANGED <<given, ok, args, entity_conf, at, what, log, calls, prev>>

\* Configuration(raw, entity_conf, base_path, ...): works on the caller's tree.
new_Configuration ==
    /\ pc = "start"
    /\ \E ec \in EntityConfs(MaxEntities) :
       \E r \in {Configuration_init(raw, ec, base_path, domain, port, file_attributes)} :
          /\ entity_conf' = ec
          /\ raw' = r.conf
          /\ self' = [t |-> "Configuration", v |-> r.self]
          /\ ok' = r.ok
          /\ at' = r.at
          /\ what' = r.what
          /\ log' = r.log
    /\ pc' = "Configuration"
    /\ UNCHANGED <<given, own, args, calls, prev, nmut>>

NextFn == call_add_base_path \/ call_set_domain_and_port
NextOP == new_OPConfiguration \/ mutate_attribute
NextServer == new_Configuration

SpecFn == InitFn /\ [][NextFn]_vars
SpecOP == InitOP /\ [][NextOP]_vars
SpecServer == InitServer /\ [][NextServer]_vars

(***************************************************************************)
(* Vocabulary of the properties                                            *)
(***************************************************************************)
\* A step into the i-th element of a list.
IndexTok(i) == CASE i = 1 -> "#1" [] i = 2 -> "#2" [] i = 3 -> "#3" [] OTHER -> "#n"

\* The key paths of x through nested mappings.
RECURSIVE MapPaths(_)
MapPaths(x) ==
    {<<>>} \cup
    (IF x.t = "map"
     THEN UNION { { <<k>> \o p : p \in MapPaths(x.v[k]) } : k \in DOMAIN x.v }
     ELSE {})

\* The paths of x through nested mappings and lists.
RECURSIVE AllPaths(_)
AllPaths(x) ==
    {<<>>} \cup
    (IF x.t = "map"
     THEN UNION { { <<k>> \o p : p \in AllPaths(x.v[k]) } : k \in DOMAIN x.v }
     ELSE IF x.t = "list"
     THEN UNION { { <<IndexTok(i)>> \o p : p \in AllPaths(x.v[i]) } : i \in DOMAIN x.v }
     ELSE {})

RECURSIVE Walk(_, _)
Walk(x, p) ==
    IF p = <<>> THEN [ok |-> TRUE, val |-> x]
    ELSE IF x.t = "map" /\ Head(p) \in DOMAIN x.v THEN Walk(x.v[Head(p)], Tail(p))
    ELSE IF x.t = "list" /\ \E i \in DOMAIN x.v : IndexTok(i) = Head(p)
    THEN Walk(x.v[CHOOSE i \in DOMAIN x.v : IndexTok(i) = Head(p)], Tail(p))
    ELSE [ok |-> FALSE, val |-> x]

At(x, p) == Walk(x, p).val
Last(p) == p[Len(p)]

\* {"class": name, "kwargs": {...}} or {"function": name, "kwargs": {...}}
IsDescriptor(x) ==
    /\ x.t = "map"
    /\ "kwargs" \in DOMAIN x.v
    /\ x.v["kwargs"].t = "map"
    /\ \/ "class" \in DOMAIN x.v /\ x.v["class"].t = "str"
       \/ "function" \in DOMAIN x.v /\ x.v["function"].t = "str"

\* x has, reached through nested mappings, a key among names.
HasKeyIn(x, names) ==
    \E p \in MapPaths(x) : \E i \in 1..Len(p) : p[i] \in names

Braces == {"{", "}"}
Doubled(s) == \E i \in 1..(Len(s) - 1) : s[i] \in Braces /\ s[i + 1] = s[i]
HasBrace(s) == \E i \in 1..Len(s) : s[i] \in Braces

\* A "{domain}" or "{port}" placeholder is left in the string s.
HasPlaceholder(s) ==
    \E i \in 1..(Len(s) - 2) :
        s[i] = "{" /\ s[i + 1] \in {"domain", "port"} /\ s[i + 2] = "}"

\* No template under a URI key of x uses the "{{" or "}}" escape.
NoEscapes(x) ==
    \A p \in MapPaths(x) :
        (p # <<>> /\ Last(p) \in URIS) =>
            LET v == At(x, p)
            IN /\ v.t = "str" => ~Doubled(v.v)
               /\ v.t = "list" => \A i \in DOMAIN v.v : v.v[i].t = "str" => ~Doubled(v.v[i].v)

\* The built object seen as a tree; an attribute that holds a dict of the
\* caller's tree shows that dict as it is now.
Deref(x) == IF x.t = "ref" THEN At(raw, x.v) ELSE x
AsTree(obj) == Map([k \in DOMAIN obj.v |-> Deref(obj.v[k])])

Built == pc = "OPConfiguration" /\ ok
PathOf(econf) == IF "path" \in DOMAIN econf THEN econf["path"] ELSE <<>>

(***************************************************************************)
(* C1                                                                      *)
(***************************************************************************)
\* C1: building an OPConfiguration, whether it succeeds or raises, and any
\* later in-place change made through the built object's attributes, leave
\* the caller's tree exactly as the caller handed it over.
C1_CopyIsolation ==
    pc \in {"OPConfiguration", "mutated"} => raw = given

\* A build that rewrote a path in its copy, followed by an in-place change of
\* the same attribute value.
C1_Witness ==
    /\ pc = "mutated"
    /\ own # None
    /\ "userinfo" \in DOMAIN own.v
    /\ "mutated" \in DOMAIN own.v["userinfo"].v
    /\ own.v["userinfo"].v["kwargs"] # given.v["userinfo"].v["kwargs"]
    /\ raw = given

(***************************************************************************)
(* C2                                                                      *)
(***************************************************************************)
\* C2 as stated: every schema attribute whose key the raw tree contains holds
\* the tree's (rewritten, substituted) value.
C2_ExplicitNeverOverridden ==
    Built => \A k \in Schema \cap DOMAIN given.v : self.v[k] = own.v[k]

\* C2 amended: a schema attribute whose key the raw tree contains with a truthy
\* value (after rewriting and substitution) holds that value, not the default;
\* template_dir holds that value resolved to an absolute path.
C2_TruthyNeverOverridden ==
    Built =>
        \A k \in Schema \cap DOMAIN given.v :
            ~Falsy(own.v[k]) =>
                IF k = "template_dir" THEN self.v[k] = Str(abspath(own.v[k].v))
                ELSE self.v[k] = own.v[k]

\* An explicit truthy value for an attribute that has a default.
C2_Witness ==
    /\ Built
    /\ "httpc_params" \in DOMAIN given.v
    /\ ~Falsy(given.v["httpc_params"])
    /\ self.v["httpc_params"] = given.v["httpc_params"]
    /\ self.v["httpc_params"] # DEFAULT_CONFIG["httpc_params"]

(***************************************************************************)
(* C3                                                                      *)
(***************************************************************************)
\* What the default-merge rule gives attribute k from the transformed tree.
RuleValue(k) ==
    IF Falsy(Get(own, k, None))
    THEN IF k \in DOMAIN DEFAULT_CONFIG THEN DEFAULT_CONFIG[k] ELSE Placeholder(k)
    ELSE own.v[k]

\* C3 as stated: every schema attribute equals what the default-merge rule gives.
C3_DefaultMergeAll ==
    Built => \A k \in Schema : self.v[k] = RuleValue(k)

\* C3 amended: every schema attribute other than template_dir equals what the
\* default-merge rule gives; template_dir is that value as an absolute path.
C3_DefaultMerge ==
    Built =>
        \A k \in Schema :
            IF k = "template_dir" THEN self.v[k] = Str(abspath(RuleValue(k).v))
            ELSE self.v[k] = RuleValue(k)

\* All three branches at once: authz from the default table, keys from the
\* tree, userinfo (absent, no default) at its placeholder.
C3_Witness ==
    /\ Built
    /\ "authz" \notin DOMAIN given.v
    /\ self.v["authz"] = DEFAULT_CONFIG["authz"]
    /\ "keys" \in DOMAIN given.v
    /\ self.v["keys"] = own.v["keys"]
    /\ "userinfo" \notin DOMAIN given.v
    /\ self.v["userinfo"] = None

(***************************************************************************)
(* C4                                                                      *)
(***************************************************************************)
\* C4 as stated: every class/function+kwargs sub-tree of the raw tree is found
\* in the built object at the same place with the same content.
C4_PassThroughAll ==
    Built =>
        \A p \in AllPaths(given) :
            IsDescriptor(At(given, p)) =>
                /\ Walk(AsTree(self), p).ok
                /\ At(AsTree(self), p) = At(given, p)

\* C4 amended: a class/function+kwargs sub-tree under a top-level key of the
\* object's schema, with no file-attribute key and no URI key inside it, is
\* found in the built object at the same place with the same content.
C4_PassThrough ==
    Built =>
        \A p \in AllPaths(given) :
            ( /\ p # <<>>
              /\ p[1] \in Schema
              /\ IsDescriptor(At(given, p))
              /\ ~HasKeyIn(At(given, p), Names(file_attributes) \cup URIS) ) =>
                /\ Walk(AsTree(self), p).ok
                /\ At(AsTree(self), p) = At(given, p)

\* A descriptor passed through by a build that did rewrite paths.
C4_Witness ==
    /\ Built
    /\ base_path # <<>>
    /\ "authz" \in DOMAIN given.v
    /\ IsDescriptor(given.v["authz"])
    /\ self.v["authz"] = given.v["authz"]
    /\ "db_file" \in DOMAIN given.v
    /\ own # given

(***************************************************************************)
(* C9                                                                      *)
(***************************************************************************)
\* C9: when the tree omits issuer or gives an empty one, the built object's
\* issuer is the default template formatted with the resolved domain and
\* port, with no {domain} or {port} placeholder left.
C9_IssuerResolved ==
    (Built /\ Falsy(Get(own, "issuer", None))) =>
        /\ self.v["issuer"] = format(DEFAULT_CONFIG["issuer"], resolve_domain(own, domain),
                                     resolve_port(own, port)).val
        /\ ~HasPlaceholder(self.v["issuer"].v)

(***************************************************************************)
(* C5                                                                      *)
(***************************************************************************)
\* C5: add_base_path never raises, and in its result a string under a
\* file-attribute key is kept if it starts with "/", is "./" if it was "", and
\* is join(base_path, value) otherwise; every other value is unchanged.
C5_AddBasePathRule ==
    pc = "add_base_path" =>
        /\ ok
        /\ \A p \in MapPaths(given) :
              p # <<>> =>
                LET v == At(given, p)
                    w == Walk(raw, p)
                IN /\ w.ok
                   /\ IF v.t = "str" /\ Last(p) \in Names(file_attributes)
                      THEN w.val = Str(IF startswith(v.v, "/") THEN v.v
                                       ELSE IF v.v = <<>> THEN <<".", "/">>
                                       ELSE path_join(base_path, v.v))
                      ELSE IF v.t = "map"
                      THEN w.val.t = "map" /\ DOMAIN w.val.v = DOMAIN v.v
                      ELSE w.val = v

(***************************************************************************)
(* C6                                                                      *)
(***************************************************************************)
\* C6: after a set_domain_and_port that returned, a string under a URI key is
\* formatted, a list under a URI key is a list of the same length with every
\* element formatted, a mapping under any other key keeps its keys (it is
\* recursed into), and every other value is unchanged.
C6_TemplateRule ==
    (pc = "set_domain_and_port" /\ calls = 1 /\ ok) =>
        \A p \in MapPaths(given) :
            p # <<>> =>
                LET v == At(given, p)
                    w == Walk(raw, p)
                IN /\ w.ok
                   /\ IF Last(p) \in URIS /\ v.t = "str"
                      THEN /\ w.val = format(v, domain, port).val
                           /\ (v = Template /\ domain = T("example.com") /\ port = Num(443))
                                => w.val = Str(<<"https://", "example.com", ":", "443">>)
                      ELSE IF Last(p) \in URIS /\ v.t = "list"
                      THEN /\ w.val.t = "list"
                           /\ Len(w.val.v) = Len(v.v)
                           /\ \A i \in DOMAIN v.v : w.val.v[i] = format(v.v[i], domain, port).val
                      ELSE IF v.t = "map"
                      THEN w.val.t = "map" /\ DOMAIN w.val.v = DOMAIN v.v
                      ELSE w.val = v

\* A list under a top-level URI key and a string under a nested one, both
\* substituted by one call.
C6_Witness ==
    /\ pc = "set_domain_and_port" /\ calls = 1 /\ ok
    /\ "base_url" \in DOMAIN given.v
    /\ given.v["base_url"].t = "list"
    /\ raw.v["base_url"] # given.v["base_url"]
    /\ "endpoint" \in DOMAIN given.v
    /\ raw.v["endpoint"] # given.v["endpoint"]

(***************************************************************************)
(* C7                                                                      *)
(***************************************************************************)
\* C7 as stated: applying set_domain_and_port again to its own result succeeds
\* and changes nothing.
C7_IdempotentAll ==
    (pc = "set_domain_and_port" /\ calls >= 2) => (ok /\ raw = prev)

\* C7 amended: the same, for trees whose templates under URI keys use no "{{"
\* or "}}" escape and a domain and port whose text has no brace.
C7_Idempotent ==
    ( /\ pc = "set_domain_and_port"
      /\ calls >= 2
      /\ NoEscapes(given)
      /\ ~HasBrace(ToStr(domain)) /\ ~HasBrace(ToStr(port)) ) =>
        (ok /\ raw = prev)

\* A second application after a first one that did substitute.
C7_Witness ==
    /\ pc = "set_domain_and_port" /\ calls = 2 /\ ok
    /\ NoEscapes(given)
    /\ prev # given
    /\ raw = prev

(***************************************************************************)
(* C8                                                                      *)
(***************************************************************************)
\* C8: descriptors are processed in list order; when descriptor `at` fails on
\* its path, attr or class (in that order), exactly the descriptors before it
\* have their sub-configuration assigned on the parent, and none after it.
C8_FailFast ==
    /\ (pc = "Configuration" /\ ok) => log = [i \in 1..Len(entity_conf) |-> i]
    /\ (pc = "Configuration" /\ ~ok /\ what \in {"path", "attr", "class"}) =>
          /\ at \in 1..Len(entity_conf)
          /\ log = [i \in 1..(at - 1) |-> i]
          /\ \A i \in 1..(at - 1) :
                /\ {"attr", "class"} \subseteq DOMAIN entity_conf[i]
                /\ entity_conf[i]["attr"] \in DOMAIN self.v
                /\ (\A j \in (i + 1)..(at - 1) : entity_conf[j]["attr"] # entity_conf[i]["attr"])
                      => self.v[entity_conf[i]["attr"]].t = entity_conf[i]["class"]
          /\ DOMAIN self.v = {"logger", "webserver"}
                             \cup { entity_conf[i]["attr"] : i \in 1..(at - 1) }
          /\ LET d == entity_conf[at]
                 found == navigate(raw, PathOf(d)).ok
             IN /\ what = "path" <=> ~found
                /\ what = "attr" <=> (found /\ "attr" \notin DOMAIN d)
                /\ what = "class" <=> (found /\ "attr" \in DOMAIN d /\ "class" \notin DOMAIN d)

\* The second descriptor fails on its path after the first was attached.
C8_Witness ==
    /\ pc = "Configuration" /\ ~ok
    /\ at = 2 /\ what = "path"
    /\ log = <<1>>
    /\ "op" \in DOMAIN self.v
    /\ self.v["op"].t = "OPConfiguration"

(***************************************************************************)
(* C10                                                                     *)
(***************************************************************************)
\* C10: in a server-level build with a non-empty base_path and one entity
\* descriptor, every relative, non-empty string under a file-attribute key of
\* the descriptor's sub-tree is, in the attached sub-configuration,
\* join(base_path, original value). (template_dir, which the constructor
\* resolves to an absolute path, is left aside.)
C10_BasePathOnce ==
    ( /\ pc = "Configuration" /\ ok
      /\ base_path # <<>>
      /\ ~file_attributes.given
      /\ Len(entity_conf) = 1 ) =>
        LET d == entity_conf[1]
            sub == At(given, PathOf(d))
            built == AsTree(self.v[d["attr"]])
        IN \A q \in MapPaths(sub) :
              ( /\ q # <<>>
                /\ q[1] # "template_dir"
                /\ Last(q) \in Names(file_attributes)
                /\ At(sub, q).t = "str"
                /\ At(sub, q).v # <<>>
                /\ ~startswith(At(sub, q).v, "/")
                /\ Walk(built, q).ok ) =>
                    At(built, q) = Str(path_join(base_path, At(sub, q).v))
====
